---- MODULE Spec2Model ----
(***************************************************************************)
(* The multi-step assessment flow of the interview_ai front end            *)
(* (frontend/src/App.tsx, held in src/frontend/src/components/ui/badge.tsx *)
(* from line 28 on): the five routed pages, the navigation payload         *)
(* (location.state), each page's React state, the gateway calls in flight, *)
(* the Test page's countdown and the local scoring (buildReport).          *)
(*                                                                         *)
(* Conventions.                                                            *)
(*  - Exactly one routed page is mounted at a time; the React state of the *)
(*    pages that are not mounted is held at its useState initial value.    *)
(*  - null / undefined of a numeric-coded field is 0, of a string field    *)
(*    NULL, of an object field the empty sequence (<<r>> when present).    *)
(*  - A résumé file is 1..NumFiles; /parse answers file f with profile f;  *)
(*    /users answers profile p with the candidate id p, so an id names the *)
(*    profile it was registered with.                                      *)
(*  - A FlatQ id `q-${n}` is the number n (the formatting is injective).   *)
(*  - A click handler runs to completion, navigate() included, as one      *)
(*    step; an async handler is one step per await of a fetch.  A state    *)
(*    update, the re-render it causes and the effects of that render are   *)
(*    part of the step that made the update.                               *)
(*  - Numbers that the code divides are IEEE-754 doubles, rounded to       *)
(*    nearest-even after every operation as JavaScript does; counters and  *)
(*    indices are integers.                                                *)
(*  - LoadingOverlay is `fixed inset-0 z-50`: while it is rendered no      *)
(*    control of the page underneath can be clicked.  A button that is     *)
(*    rendered and not disabled can still be activated from the keyboard;  *)
(*    this is followed for REGENERATE, the one control that starts a       *)
(*    gateway call and carries no `disabled`.                              *)
(***************************************************************************)
EXTENDS Integers, Sequences, FiniteSets, TLC

\* ------------------------------------------------------------------ bounds
NumFiles == 2          \* distinct résumé files the candidate may pick
MaxInFlight == 2       \* gateway requests followed while in flight together
MaxShort == 4          \* questions of a set scored under every answer map
MaxQuestions == 40     \* questions of a set scored with its first o answered
MaxWindows == 4        \* windows of a set scored under every window pattern
MaxPerWindow == 3      \* right answers per window in those patterns
MaxGroup == 11         \* questions of the aptitude or the reasoning group

\* ------------------------------------------------------- program constants
TEST_SECONDS == 1800   \* useState(30 * 60)
REASONING_OFFSET == 10 \* `q-${10 + i + 1}`
CODING_OFFSET == 20    \* `q-${20 + i + 1}`
WINDOW == 5            \* const window = 5
PER_DOMAIN == 10       \* counts: { aptitude: 10, reasoning: 10, coding: 10 }

NULL == "<null>"

Pages == {"parse", "questions", "instructions", "test", "results"}
Levels == {"beginner", "intermediate", "advanced"}
Domains == <<"aptitude", "reasoning", "coding">>

\* ------------------------------------------------------------- HTTP model
\* How a fetch can end: res.ok, a non-ok status with a body text, a non-ok
\* status with an empty body, or a rejected promise (transport error).
Outcomes == {"ok", "http_error", "http_error_empty", "network_error"}

HTTP_BODY == "Internal Server Error"
FETCH_REJECT == "Failed to fetch"
\* res.statusText of a non-ok response; no page reads it.
STATUS_TEXT == "Service Unavailable"

\* err.message of the Error caught after a failed fetch.
ErrMessage(outcome) ==
    CASE outcome = "http_error" -> HTTP_BODY
      [] outcome = "http_error_empty" -> ""
      [] outcome = "network_error" -> FETCH_REJECT
      [] OTHER -> ""

\* Mutant: the catch block shows err.message as it is.
Surfaced_NoFallback(outcome, fallback) == ErrMessage(outcome)

\* `err.message || fallback`
Surfaced(outcome, fallback) ==
    IF ErrMessage(outcome) = "" THEN fallback ELSE ErrMessage(outcome)

\* ---------------------------------------------------------- question sets
QA == [question |-> "2+2?", options |-> <<"4", "5">>, correct_answer |-> "4",
       level |-> "beginner"]
QR == [question |-> "next of 1,2,3?", options |-> <<"3", "4">>,
       correct_answer |-> "4", level |-> "intermediate"]

\* The QuestionsPayload values /select_questions may answer with.
QSets == <<
    [aptitude |-> <<>>, reasoning |-> <<>>, coding |-> <<>>],
    [aptitude |-> <<QA>>, reasoning |-> <<QR>>, coding |-> <<>>]
>>
QSetIds == 1..Len(QSets)

\* Further questions a payload may hold: a coding question, one whose
\* options differ in case and white space only, one with an empty option
\* and an empty correct answer, and one with a single option.
QC == [question |-> "cost of binary search?", options |-> <<"O(log n)", "O(n)">>,
       correct_answer |-> "O(log n)", level |-> "advanced"]
QParis == [question |-> "capital of France?",
           options |-> <<"Paris", "Paris ", "paris">>,
           correct_answer |-> "Paris", level |-> "beginner"]
QBlank == [question |-> "?", options |-> <<"", "x">>, correct_answer |-> "",
           level |-> "beginner"]
QOne == [question |-> "ready?", options |-> <<"yes">>, correct_answer |-> "yes",
         level |-> "beginner"]

Rep(q, n) == [i \in 1..n |-> q]

\* n questions of one domain.
ShortSingle(n) == [aptitude |-> Rep(QA, n), reasoning |-> <<>>, coding |-> <<>>]

\* n questions spread over the three domains.
ShortSpread(n) ==
    [aptitude |-> Rep(QA, (n + 2) \div 3), reasoning |-> Rep(QR, (n + 1) \div 3),
     coding |-> Rep(QC, n \div 3)]

\* n single-option questions: PER_DOMAIN of aptitude, PER_DOMAIN of
\* reasoning, the rest coding.
Uniform(n) ==
    [aptitude |-> Rep(QOne, IF n < PER_DOMAIN THEN n ELSE PER_DOMAIN),
     reasoning |-> Rep(QOne, IF n < PER_DOMAIN THEN 0
                             ELSE IF n < 2 * PER_DOMAIN THEN n - PER_DOMAIN
                             ELSE PER_DOMAIN),
     coding |-> Rep(QOne, IF n < 2 * PER_DOMAIN THEN 0 ELSE n - 2 * PER_DOMAIN)]

ShortSets == [n \in 1..MaxShort |-> ShortSingle(n)] \o [n \in 1..MaxShort |-> ShortSpread(n)]
SpecialSets ==
    << [aptitude |-> <<QParis>>, reasoning |-> <<>>, coding |-> <<>>],
       [aptitude |-> <<QBlank>>, reasoning |-> <<>>, coding |-> <<>>] >>
UniformSets == [n \in 1..MaxQuestions |-> Uniform(n)]

\* A payload of a aptitude, r reasoning and c coding questions, each
\* question told from every other by its text.
Numbered(domain, k) ==
    [question |-> domain \o " " \o ToString(k), options |-> <<"yes", "no">>,
     correct_answer |-> "yes", level |-> "beginner"]

Group(domain, n) == [k \in 1..n |-> Numbered(domain, k)]

Sized(a, r, c) ==
    [aptitude |-> Group("aptitude", a), reasoning |-> Group("reasoning", r),
     coding |-> Group("coding", c)]

\* The payloads of every aptitude and reasoning size up to MaxGroup, without
\* coding questions and with PER_DOMAIN of them.
SizedSets ==
    [n \in 1..(2 * (MaxGroup + 1) * (MaxGroup + 1)) |->
        Sized((n - 1) % (MaxGroup + 1),
              ((n - 1) \div (MaxGroup + 1)) % (MaxGroup + 1),
              PER_DOMAIN * ((n - 1) \div ((MaxGroup + 1) * (MaxGroup + 1))))]

\* Every QuestionsPayload of the model, by its number.
AllSets == QSets \o ShortSets \o SpecialSets \o UniformSets \o SizedSets

ShortIds == (Len(QSets) + 1)..(Len(QSets) + Len(ShortSets) + Len(SpecialSets))
UniformId(n) == Len(QSets) + Len(ShortSets) + Len(SpecialSets) + n
SizedIds == (UniformId(MaxQuestions) + 1)..Len(AllSets)

\* The number of Sized(a, r, c), for c = 0 or c = PER_DOMAIN.
SizedId(a, r, c) ==
    UniformId(MaxQuestions) + 1 + a + (MaxGroup + 1) * r
        + (MaxGroup + 1) * (MaxGroup + 1) * (c \div PER_DOMAIN)

\* /generate_report answers with j.report_markdown.
Narratives == {"", "## Report"}

\* ------------------------------------------------------------- flattener
\* Mutant: the id is q-(offset+i), counted from 0.
FlatDomain_ZeroBased(questions, offset, domain) ==
    [k \in 1..Len(questions) |->
        [id |-> offset + (k - 1), domain |-> domain, q |-> questions[k]]]

\* The forEach of one domain: question i (0-based) gets id q-(offset+i+1).
FlatDomain(questions, offset, domain) ==
    [k \in 1..Len(questions) |->
        [id |-> offset + (k - 1) + 1, domain |-> domain, q |-> questions[k]]]

\* Mutant: the ids are compacted, each block starting where the one before
\* it ended.
FlatOf_Compact(payload) ==
    FlatDomain(payload.aptitude, 0, "aptitude")
        \o FlatDomain(payload.reasoning, Len(payload.aptitude), "reasoning")
        \o FlatDomain(payload.coding, Len(payload.aptitude) + Len(payload.reasoning),
                      "coding")

\* Mutant: the coding block is numbered with the offset of the reasoning
\* block.
FlatOf_SharedOffset(payload) ==
    FlatDomain(payload.aptitude, 0, "aptitude")
        \o FlatDomain(payload.reasoning, REASONING_OFFSET, "reasoning")
        \o FlatDomain(payload.coding, REASONING_OFFSET, "coding")

\* const flat = useMemo(...): aptitude, then reasoning, then coding.
FlatOf(payload) ==
    FlatDomain(payload.aptitude, 0, "aptitude")
        \o FlatDomain(payload.reasoning, REASONING_OFFSET, "reasoning")
        \o FlatDomain(payload.coding, CODING_OFFSET, "coding")

\* `if (!selected) return arr;`
Flat(selected) == IF selected = 0 THEN <<>> ELSE FlatOf(AllSets[selected])

Total(selected) == Len(Flat(selected))

\* ------------------------------------------------- IEEE-754 double numbers
\* JavaScript's Number arithmetic, on the values buildReport computes: finite
\* doubles >= 0.  A natural number is its little-endian sequence of limbs in
\* base LIMB (no high zero limb; <<>> is 0), so that no product of the model
\* leaves the range of a 32-bit integer.
LIMB == 32768
LIMB_BITS == 15
PRECISION == 53        \* bits of a double's significand
GUARD_BITS == 30       \* extra quotient bits a division computes

RECURSIVE Pow2(_)
Pow2(k) == IF k = 0 THEN 1 ELSE 2 * Pow2(k - 1)

RECURSIVE NatOf(_)
NatOf(k) == IF k = 0 THEN <<>> ELSE <<k % LIMB>> \o NatOf(k \div LIMB)

RECURSIVE NatToInt(_)
NatToInt(a) == IF a = <<>> THEN 0 ELSE Head(a) + LIMB * NatToInt(Tail(a))

RECURSIVE Trim(_)
Trim(a) ==
    IF a # <<>> /\ a[Len(a)] = 0 THEN Trim(SubSeq(a, 1, Len(a) - 1)) ELSE a

Limb0(a) == IF a = <<>> THEN 0 ELSE Head(a)
Rest(a) == IF a = <<>> THEN <<>> ELSE Tail(a)

RECURSIVE AddCarry(_, _, _)
AddCarry(a, b, c) ==
    IF a = <<>> /\ b = <<>> THEN NatOf(c)
    ELSE LET x == Limb0(a) + Limb0(b) + c
         IN  <<x % LIMB>> \o AddCarry(Rest(a), Rest(b), x \div LIMB)

NatAdd(a, b) == AddCarry(a, b, 0)

RECURSIVE SubBorrow(_, _, _)
SubBorrow(a, b, c) ==
    IF a = <<>> THEN <<>>
    ELSE LET x == Head(a) - Limb0(b) - c
         IN  <<(x + LIMB) % LIMB>> \o SubBorrow(Tail(a), Rest(b), IF x < 0 THEN 1 ELSE 0)

\* a - b, for a >= b
NatSub(a, b) == Trim(SubBorrow(a, b, 0))

RECURSIVE NatLess(_, _)
NatLess(a, b) ==
    IF Len(a) # Len(b) THEN Len(a) < Len(b)
    ELSE IF a = <<>> THEN FALSE
    ELSE IF a[Len(a)] # b[Len(b)] THEN a[Len(a)] < b[Len(b)]
    ELSE NatLess(SubSeq(a, 1, Len(a) - 1), SubSeq(b, 1, Len(b) - 1))

RECURSIVE MulCarry(_, _, _)
MulCarry(a, k, c) ==
    IF a = <<>> THEN NatOf(c)
    ELSE LET x == Head(a) * k + c
         IN  <<x % LIMB>> \o MulCarry(Tail(a), k, x \div LIMB)

\* a * k, for k < LIMB
NatMulSmall(a, k) == IF k = 0 THEN <<>> ELSE MulCarry(a, k, 0)

\* a * LIMB^n
ShiftLimbs(a, n) == IF a = <<>> THEN <<>> ELSE [i \in 1..n |-> 0] \o a

RECURSIVE NatMul(_, _)
NatMul(a, b) ==
    IF b = <<>> THEN <<>>
    ELSE NatAdd(NatMulSmall(a, Head(b)), ShiftLimbs(NatMul(a, Tail(b)), 1))

\* Quotient and remainder of a by d, for 0 < d < LIMB (long division from
\* the high limb down).
RECURSIVE DivSmall(_, _)
DivSmall(a, d) ==
    IF a = <<>> THEN [q |-> <<>>, r |-> 0]
    ELSE LET high == DivSmall(Tail(a), d)
             x == high.r * LIMB + Head(a)
         IN  [q |-> <<x \div d>> \o high.q, r |-> x % d]

\* a * 2^n
Shl(a, n) == NatMulSmall(ShiftLimbs(a, n \div LIMB_BITS), Pow2(n % LIMB_BITS))

\* floor(a / 2^n)
Shr(a, n) ==
    IF n \div LIMB_BITS >= Len(a) THEN <<>>
    ELSE Trim(DivSmall(SubSeq(a, n \div LIMB_BITS + 1, Len(a)),
                       Pow2(n % LIMB_BITS)).q)

RECURSIVE IntBits(_)
IntBits(k) == IF k = 0 THEN 0 ELSE 1 + IntBits(k \div 2)

BitLen(a) == IF a = <<>> THEN 0 ELSE LIMB_BITS * (Len(a) - 1) + IntBits(a[Len(a)])

\* A double >= 0 is m * 2^e with m of exactly PRECISION bits, or m = 0.
DZero == [m |-> <<>>, e |-> 0]

\* Round to nearest, ties to even: the double nearest to n * 2^e, where
\* `sticky` says that the exact value lies strictly above n * 2^e (by less
\* than 2^e).
RoundDouble(n, e, sticky) ==
    LET bits == BitLen(n)
        sh == bits - PRECISION
        q == Shr(n, sh)
        rem == NatSub(n, Shl(q, sh))
        half == Shl(<<1>>, sh - 1)
        up == NatLess(half, rem) \/ (rem = half /\ (sticky \/ Head(q) % 2 = 1))
        q1 == IF up THEN NatAdd(q, <<1>>) ELSE q
    IN  IF n = <<>> THEN DZero
        ELSE IF sh <= 0 THEN [m |-> Shl(n, -sh), e |-> e + sh]
        ELSE IF BitLen(q1) > PRECISION THEN [m |-> Shr(q1, 1), e |-> e + sh + 1]
        ELSE [m |-> q1, e |-> e + sh]

\* Number(k) of an integer k >= 0
DOfInt(k) == RoundDouble(NatOf(k), 0, FALSE)

\* x < y
DLess(x, y) ==
    IF y.m = <<>> THEN FALSE
    ELSE IF x.m = <<>> THEN TRUE
    ELSE IF x.e # y.e THEN x.e < y.e
    ELSE NatLess(x.m, y.m)

\* x + y
DAdd(x, y) ==
    IF x.m = <<>> THEN y
    ELSE IF y.m = <<>> THEN x
    ELSE LET e0 == IF x.e < y.e THEN x.e ELSE y.e
         IN  RoundDouble(NatAdd(Shl(x.m, x.e - e0), Shl(y.m, y.e - e0)), e0, FALSE)

\* |x - y|
DAbsDiff(x, y) ==
    IF x.m = <<>> THEN y
    ELSE IF y.m = <<>> THEN x
    ELSE IF x = y THEN DZero
    ELSE LET e0 == IF x.e < y.e THEN x.e ELSE y.e
             nx == Shl(x.m, x.e - e0)
             ny == Shl(y.m, y.e - e0)
         IN  RoundDouble(IF NatLess(nx, ny) THEN NatSub(ny, nx) ELSE NatSub(nx, ny),
                         e0, FALSE)

\* x * y
DMul(x, y) ==
    IF x.m = <<>> \/ y.m = <<>> THEN DZero
    ELSE RoundDouble(NatMul(x.m, y.m), x.e + y.e, FALSE)

\* x / d for an integer d, 0 < d < LIMB (every divisor of buildReport is a
\* length or a count)
DDivInt(x, d) ==
    IF x.m = <<>> THEN DZero
    ELSE IF d = 1 THEN x
    ELSE LET qr == DivSmall(Shl(x.m, GUARD_BITS), d)
         IN  RoundDouble(Trim(qr.q), x.e - GUARD_BITS, qr.r # 0)

\* Math.round(x): the integer nearest to x, a tie going up
MathRound(x) ==
    IF x.m = <<>> THEN 0
    ELSE IF x.e >= 0 THEN NatToInt(Shl(x.m, x.e))
    ELSE LET q == Shr(x.m, -x.e)
             rem == NatSub(x.m, Shl(q, -x.e))
             half == Shl(<<1>>, -x.e - 1)
         IN  NatToInt(q) + (IF NatLess(rem, half) THEN 0 ELSE 1)

\* A decimal literal num/den of the source text, as the double it denotes
DLiteral(num, den) == DDivInt(DOfInt(num), den)

\* ---------------------------------------------------------------- scoring
RECURSIVE SumSeq(_)
SumSeq(s) == IF s = <<>> THEN 0 ELSE Head(s) + SumSeq(Tail(s))

\* JavaScript truthiness of an optional string.
Truthy(s) == s # NULL /\ s # ""

\* answers[f.id]
Chosen(answers, id) == IF id \in DOMAIN answers THEN answers[id] ELSE NULL

\* Mutant: the comparison alone, without the two truthiness tests.
IsCorrect_NoTruthy(chosen, correct) == chosen = correct

\* `!!chosen && !!correct && chosen === correct`
IsCorrect(chosen, correct) == Truthy(chosen) /\ Truthy(correct) /\ chosen = correct

\* const per = flat.map((f, idx) => ...)
PerQuestion(flat, answers) ==
    [idx \in 1..Len(flat) |->
        [index |-> idx,
         domain |-> flat[idx].domain,
         difficulty |-> flat[idx].q.level,
         question |-> flat[idx].q.question,
         selected |-> Chosen(answers, flat[idx].id),
         correct |-> flat[idx].q.correct_answer,
         isCorrect |-> IsCorrect(Chosen(answers, flat[idx].id),
                                 flat[idx].q.correct_answer)]]

\* Mutant: the reducer bumps the counters for every question answered.
TotalsStep_Answered(acc, r) ==
    IF r.selected # NULL
    THEN [acc EXCEPT !.overall = @ + 1, ![r.domain] = @ + 1]
    ELSE acc

\* Mutant: the reducer also counts the questions left unanswered.
TotalsStep_Unanswered(acc, r) ==
    IF r.isCorrect \/ r.selected = NULL
    THEN [acc EXCEPT !.overall = @ + 1, ![r.domain] = @ + 1]
    ELSE acc

\* The reducer of per.reduce(...): `if (r.isCorrect) { acc.overall += 1;
\* acc[r.domain] += 1 }`.
TotalsStep(acc, r) ==
    IF r.isCorrect
    THEN [acc EXCEPT !.overall = @ + 1, ![r.domain] = @ + 1]
    ELSE acc

RECURSIVE Reduce(_, _)
Reduce(acc, per) ==
    IF per = <<>> THEN acc ELSE Reduce(TotalsStep(acc, Head(per)), Tail(per))

\* per.reduce(..., { overall: 0, aptitude: 0, reasoning: 0, coding: 0,
\* totalQuestions: per.length })
Totals(per) ==
    Reduce([overall |-> 0, aptitude |-> 0, reasoning |-> 0, coding |-> 0,
            totalQuestions |-> Len(per)], per)

Min(a, b) == IF a < b THEN a ELSE b

\* Mutant: the loop steps by 1, every result is a window of its own.
Chunks_PerQuestion(correctSeq) ==
    [c \in 1..Len(correctSeq) |-> DOfInt(correctSeq[c])]

\* for (let i = 0; i < correctSeq.length; i += window) chunks.push(mean):
\* the mean of each slice, slice.reduce(...) / (slice.length || 1).
Chunks(correctSeq) ==
    LET n == Len(correctSeq)
        count == (n + WINDOW - 1) \div WINDOW
        slice(c) == SubSeq(correctSeq, (c - 1) * WINDOW + 1, Min(c * WINDOW, n))
    IN  [c \in 1..count |-> DDivInt(DOfInt(SumSeq(slice(c))), Len(slice(c)))]

\* `chunks.length || 1`
Divisor(chunks) == IF Len(chunks) = 0 THEN 1 ELSE Len(chunks)

\* chunks.reduce((a, b) => a + b, 0): a left fold from 0.
RECURSIVE SumChunks(_, _)
SumChunks(a, chunks) ==
    IF chunks = <<>> THEN a ELSE SumChunks(DAdd(a, Head(chunks)), Tail(chunks))

\* const mean = chunks.reduce(...) / (chunks.length || 1)
Mean(chunks) == DDivInt(SumChunks(DZero, chunks), Divisor(chunks))

\* chunks.reduce((a, b) => a + (b - mean) * (b - mean), 0)
RECURSIVE SumSquares(_, _, _)
SumSquares(a, chunks, mean) ==
    IF chunks = <<>> THEN a
    ELSE SumSquares(DAdd(a, DMul(DAbsDiff(Head(chunks), mean),
                                 DAbsDiff(Head(chunks), mean))),
                    Tail(chunks), mean)

\* const variance = chunks.reduce(...) / (chunks.length || 1)
Variance(chunks) ==
    DDivInt(SumSquares(DZero, chunks, Mean(chunks)), Divisor(chunks))

\* The thresholds 0.05 and 0.12 of the source text.
HIGHLY_BELOW == DLiteral(5, 100)
MODERATELY_BELOW == DLiteral(12, 100)

\* variance < 0.05 ? ... : variance < 0.12 ? ... : ...
Consistency(correctSeq) ==
    LET variance == Variance(Chunks(correctSeq))
    IN  IF DLess(variance, HIGHLY_BELOW) THEN "Highly consistent"
        ELSE IF DLess(variance, MODERATELY_BELOW) THEN "Moderately consistent"
        ELSE "Inconsistent"

\* totalQuestions ? Math.round((overall / totalQuestions) * 100) : 0
Accuracy(totals) ==
    IF totals.totalQuestions = 0 THEN 0
    ELSE MathRound(DMul(DDivInt(DOfInt(totals.overall), totals.totalQuestions),
                        DOfInt(100)))

\* function buildReport(): ReportPayload; profile is `parsed || null`.
buildReport(flat, answers, parsed) ==
    LET per == PerQuestion(flat, answers)
        totals == Totals(per)
        correctSeq == [i \in 1..Len(per) |-> IF per[i].isCorrect THEN 1 ELSE 0]
    IN  [answers |-> per,
         totals |-> totals,
         behavior |-> [accuracy |-> Accuracy(totals),
                       consistency |-> Consistency(correctSeq)],
         profile |-> parsed]

\* ------------------------------------------------------------------ state
VARIABLES
    page,        \* the routed page that is mounted
    loc,         \* location.state, the navigation payload of that page
    parse,       \* ParsePage: file, loading, data, error, userId
    questions,   \* QuestionsPage: levels, saving, msg, err, selected, ready
    test,        \* TestPage: current, answers, remaining, result
    results,     \* ResultsPage: loading, llmMd, llmErr
    call,        \* the gateway request in flight, with its request body
    intervals,   \* setInterval timers that are pending
    crashed,     \* a render threw: React has unmounted the whole tree
    built,       \* history: the reports buildReport returned in this attempt
    timerFinals, \* history: finalizations run by the timer effect
    lastIssued,  \* history: the question set /select_questions answered with last
    sub          \* history: the page's last submission, and the page state before it

vars == <<page, loc, parse, questions, test, results, call, intervals, crashed,
          built, timerFinals, lastIssued, sub>>

EmptyLoc == [userId |-> 0, parsed |-> 0, selected |-> 0, report |-> <<>>]

ParseInit == [file |-> 0, loading |-> FALSE, data |-> 0, error |-> NULL, userId |-> 0]

QuestionsInit ==
    [aptitude |-> "beginner", reasoning |-> "beginner", coding |-> "beginner",
     saving |-> FALSE, msg |-> NULL, err |-> NULL, selected |-> 0, ready |-> FALSE]

EmptyAnswers == [id \in {} |-> NULL]

TestInit ==
    [current |-> 0, answers |-> EmptyAnswers, remaining |-> TEST_SECONDS,
     result |-> <<>>]

ResultsInit == [loading |-> FALSE, llmMd |-> NULL, llmErr |-> NULL]

\* A gateway request in flight: its endpoint and its request body; `more`
\* counts the further requests to the same endpoint that are in flight
\* beside it.
Request(kind, arg, levels) ==
    [kind |-> kind, arg |-> arg, levels |-> levels, more |-> 0]

NoCall == Request("none", 0, <<>>)

Snapshot ==
    [data |-> parse.data, userId |-> parse.userId, msg |-> questions.msg,
     selected |-> questions.selected, ready |-> questions.ready,
     llmMd |-> results.llmMd]

NoSub == [status |-> "none", pre |-> [data |-> 0, userId |-> 0, msg |-> NULL,
                                      selected |-> 0, ready |-> FALSE, llmMd |-> NULL]]

Started == [status |-> "pending", pre |-> Snapshot]

Init ==
    /\ page = "parse"
    /\ loc = EmptyLoc
    /\ parse = ParseInit
    /\ questions = QuestionsInit
    /\ test = TestInit
    /\ results = ResultsInit
    /\ call = NoCall
    /\ intervals = 0
    /\ crashed = FALSE
    /\ built = <<>>
    /\ timerFinals = 0
    /\ lastIssued = 0
    /\ sub = NoSub

\* ------------------------------------------------------------------ timer
\* Mutant: the zero test of the effect is off by one.
TimerEffectFinalizes_OffByOne(selected, remaining) == selected # 0 /\ remaining <= 1

\* The timer effect of a render: `if (!selected) return; if (remaining <= 0)
\* return setResult(buildReport());` -- does this run finalize?
TimerEffectFinalizes(selected, remaining) == selected # 0 /\ remaining <= 0

\* Mutant: the effect lacks `if (!selected) return;`.
TimerEffectInterval_NoGuard(selected, remaining) == IF remaining <= 0 THEN 0 ELSE 1

\* ... `const id = setInterval(...)`: the intervals this run of the effect sets.
TimerEffectInterval(selected, remaining) ==
    IF selected = 0 THEN 0 ELSE IF remaining <= 0 THEN 0 ELSE 1

\* Mutant: the effect returns no cleanup.
ClearInterval_Leak(n) == n

\* The effect's cleanup, `() => clearInterval(id)`: it runs before the effect
\* runs again and when the page unmounts.
ClearInterval(n) == IF n > 0 THEN n - 1 ELSE 0

\* Mutant: the updater subtracts 2.
TickRemaining_Skip(s) == IF s > 1 THEN s - 2 ELSE 0

\* setRemaining((s) => (s > 0 ? s - 1 : 0))
TickRemaining(s) == IF s > 0 THEN s - 1 ELSE 0

\* ------------------------------------------------------------- navigation
\* The first render of TestPage evaluates `currentQ.domain` with
\* currentQ = flat[0]: with a question set and no question it throws.
TestRenderThrows(to, st) == to = "test" /\ st.selected # 0 /\ Total(st.selected) = 0

\* Mutant: the effect is declared above the `if (!report) return`.
ResultsFetches_NoReportCheck(to, st) == to = "results"

\* ResultsPage with a report runs `useEffect(() => { fetchLLM(); }, [])`.
ResultsFetches(to, st) == to = "results" /\ st.report # <<>>

\* The router unmounts the current page and mounts `to` with payload st.
Goto(to, st) ==
    /\ page' = to
    /\ loc' = st
    /\ parse' = ParseInit
    /\ questions' = QuestionsInit
    /\ test' = TestInit
    /\ crashed' = TestRenderThrows(to, st)
    /\ intervals' = ClearInterval(intervals)
                      + (IF to = "test" /\ ~TestRenderThrows(to, st)
                         THEN TimerEffectInterval(st.selected, TEST_SECONDS) ELSE 0)
    /\ results' = IF ResultsFetches(to, st)
                  THEN [loading |-> TRUE, llmMd |-> NULL, llmErr |-> NULL]
                  ELSE ResultsInit
    /\ call' = IF ResultsFetches(to, st)
               THEN Request("generate_report", 0, <<>>)
               ELSE NoCall
    /\ sub' = IF ResultsFetches(to, st)
              THEN [status |-> "pending", pre |-> NoSub.pre] ELSE NoSub
    /\ UNCHANGED lastIssued

Enter(to, st) == Goto(to, st) /\ built' = <<>> /\ timerFinals' = 0

\* <Route path=... element=.../>: the address bar or a reload mounts a page
\* with no location.state.
EnterUrl(p) == Enter(p, EmptyLoc)

pageVars == <<page, loc, crashed, intervals>>
attempt == <<built, timerFinals>>

\* -------------------------------------------------------------- ParsePage
\* Whether the page's controls can be clicked: nothing is left of a crashed
\* tree, and LoadingOverlay covers the page while it is rendered.
OnParse == page = "parse" /\ ~crashed /\ ~parse.loading

\* onChange / onDrop of the file input: setFile(files?.[0] || null)
SetFile(f) ==
    /\ OnParse
    /\ parse' = [parse EXCEPT !.file = f]
    /\ UNCHANGED <<pageVars, questions, test, results, call, attempt, lastIssued, sub>>

\* handleParse up to its first await; the submit button is
\* disabled={!file || loading}.
HandleParse ==
    /\ OnParse
    /\ parse.file # 0
    /\ parse' = [parse EXCEPT !.loading = TRUE, !.error = NULL, !.data = 0]
    /\ call' = Request("parse", parse.file, <<>>)
    /\ sub' = Started
    /\ UNCHANGED <<pageVars, questions, test, results, attempt, lastIssued>>

\* handleParse from the answer of /parse to its next await or its end.
ParseResponded(o) ==
    /\ call.kind = "parse"
    /\ IF o = "ok"
       THEN /\ parse' = [parse EXCEPT !.data = call.arg]
            /\ call' = Request("users", call.arg, <<>>)
            /\ UNCHANGED sub
       ELSE /\ parse' = [parse EXCEPT !.error = Surfaced(o, "Parse failed"),
                                      !.loading = FALSE]
            /\ call' = NoCall
            /\ sub' = [sub EXCEPT !.status = "failed"]
    /\ UNCHANGED <<pageVars, questions, test, results, attempt, lastIssued>>

\* handleParse from the answer of /users to its end.
UsersResponded(o) ==
    /\ call.kind = "users"
    /\ IF o = "ok"
       THEN /\ parse' = [parse EXCEPT !.userId = call.arg, !.loading = FALSE]
            /\ sub' = [sub EXCEPT !.status = "ok"]
       ELSE /\ parse' = [parse EXCEPT !.error = Surfaced(o, "Parse failed"),
                                      !.loading = FALSE]
            /\ sub' = [sub EXCEPT !.status = "failed"]
    /\ call' = NoCall
    /\ UNCHANGED <<pageVars, questions, test, results, attempt, lastIssued>>

\* CONTINUE TO SKILL ASSESSMENT is rendered under `data &&` and `userId &&`.
ParseContinueShown == parse.data # 0 /\ parse.userId # 0

ParseContinue ==
    /\ OnParse
    /\ ParseContinueShown
    /\ Enter("questions", [EmptyLoc EXCEPT !.userId = parse.userId,
                                           !.parsed = parse.data])

\* ---------------------------------------------------------- QuestionsPage
OnQuestions == page = "questions" /\ ~crashed /\ ~questions.saving

MISSING_USER == "Missing userId; parse your resume first."
SAVED == "Responses saved successfully."

\* The three level pickers: setAptitude / setReasoning / setCoding.
SetLevel(d, l) ==
    /\ OnQuestions
    /\ questions' = CASE d = "aptitude" -> [questions EXCEPT !.aptitude = l]
                      [] d = "reasoning" -> [questions EXCEPT !.reasoning = l]
                      [] OTHER -> [questions EXCEPT !.coding = l]
    /\ UNCHANGED <<pageVars, parse, test, results, call, attempt, lastIssued, sub>>

\* BACK: navigate("/")
QuestionsBack == OnQuestions /\ Enter("parse", EmptyLoc)

\* Mutant: onSubmit lacks `if (!userId) { ...; return; }`.
OnSubmit_NoUserCheck ==
    /\ OnQuestions
    /\ questions' = [questions EXCEPT !.saving = TRUE, !.err = NULL, !.msg = NULL]
    /\ call' = Request("responses", loc.userId,
                        <<questions.aptitude, questions.reasoning, questions.coding>>)
    /\ sub' = Started
    /\ UNCHANGED <<pageVars, parse, test, results, attempt, lastIssued>>

\* onSubmit up to its first await; the submit button is disabled={saving}.
OnSubmit ==
    /\ OnQuestions
    /\ IF loc.userId = 0
       THEN /\ questions' = [questions EXCEPT !.err = MISSING_USER]
            /\ UNCHANGED <<call, sub>>
       ELSE /\ questions' = [questions EXCEPT !.saving = TRUE, !.err = NULL,
                                              !.msg = NULL]
            /\ call' = Request("responses", loc.userId,
                                <<questions.aptitude, questions.reasoning,
                                  questions.coding>>)
            /\ sub' = Started
    /\ UNCHANGED <<pageVars, parse, test, results, attempt, lastIssued>>

\* Mutant: `if (!res.ok) throw` is missing after /responses.
ResponsesResponded_NoOkCheck(o) ==
    /\ call.kind = "responses"
    /\ questions' = [questions EXCEPT !.msg = SAVED]
    /\ call' = [call EXCEPT !.kind = "select_questions"]
    /\ UNCHANGED sub
    /\ UNCHANGED <<pageVars, parse, test, results, attempt, lastIssued>>

\* onSubmit from the answer of /responses to its next await or its end.
ResponsesResponded(o) ==
    /\ call.kind = "responses"
    /\ IF o = "ok"
       THEN /\ questions' = [questions EXCEPT !.msg = SAVED]
            /\ call' = [call EXCEPT !.kind = "select_questions"]
            /\ UNCHANGED sub
       ELSE /\ questions' = [questions EXCEPT
                                !.err = Surfaced(o, "Failed to generate questions"),
                                !.saving = FALSE]
            /\ call' = NoCall
            /\ sub' = [sub EXCEPT !.status = "failed"]
    /\ UNCHANGED <<pageVars, parse, test, results, attempt, lastIssued>>

\* Mutant: `if (!qs.ok) throw` is missing, the body is taken as the payload.
SelectResponded_NoOkCheck(o, qs) ==
    /\ call.kind = "select_questions"
    /\ questions' = [questions EXCEPT !.selected = qs, !.ready = TRUE,
                                      !.saving = FALSE]
    /\ lastIssued' = IF o = "ok" THEN qs ELSE lastIssued
    /\ sub' = [sub EXCEPT !.status = IF o = "ok" THEN "ok" ELSE "failed"]
    /\ call' = NoCall
    /\ UNCHANGED <<pageVars, parse, test, results, attempt>>

\* onSubmit from the answer of /select_questions (payload qs) to its end.
SelectResponded(o, qs) ==
    /\ call.kind = "select_questions"
    /\ IF o = "ok"
       THEN /\ questions' = [questions EXCEPT !.selected = qs, !.ready = TRUE,
                                              !.saving = FALSE]
            /\ lastIssued' = qs
            /\ sub' = [sub EXCEPT !.status = "ok"]
       ELSE /\ questions' = [questions EXCEPT
                                !.err = Surfaced(o, "Failed to generate questions"),
                                !.saving = FALSE]
            /\ sub' = [sub EXCEPT !.status = "failed"]
            /\ UNCHANGED lastIssued
    /\ call' = NoCall
    /\ UNCHANGED <<pageVars, parse, test, results, attempt>>

\* CONTINUE TO INSTRUCTIONS is rendered under `ready &&`;
\* toInstructions: `if (!selected) return;`
ToInstructionsShown == questions.ready

ToInstructions ==
    /\ OnQuestions
    /\ ToInstructionsShown
    /\ IF questions.selected = 0
       THEN UNCHANGED vars
       ELSE Enter("instructions", [EmptyLoc EXCEPT !.userId = loc.userId,
                                                   !.selected = questions.selected,
                                                   !.parsed = loc.parsed])

\* ------------------------------------------------------- InstructionsPage
OnInstructions == page = "instructions" /\ ~crashed

\* BACK: navigate("/questions", { state: { userId, parsed } })
InstructionsBack ==
    /\ OnInstructions
    /\ Enter("questions", [EmptyLoc EXCEPT !.userId = loc.userId,
                                           !.parsed = loc.parsed])

\* START TEST: navigate("/test", { state: { userId, selected, parsed } })
StartTest ==
    /\ OnInstructions
    /\ Enter("test", [EmptyLoc EXCEPT !.userId = loc.userId,
                                      !.selected = loc.selected,
                                      !.parsed = loc.parsed])

\* --------------------------------------------------------------- TestPage
\* `if (!selected) return <NO TEST LOADED>`
TestGuard == page = "test" /\ ~crashed /\ loc.selected = 0

\* The test itself is rendered: a question set came in and `result` is not
\* set (with a result the page renders only the SUBMITTING TEST overlay).
TestActive == page = "test" /\ ~crashed /\ loc.selected # 0 /\ test.result = <<>>

total == Total(loc.selected)

\* const currentQ = flat[current]
currentQ == Flat(loc.selected)[test.current + 1]

\* const answeredCount = Object.keys(answers).length
answeredCount == Cardinality(DOMAIN test.answers)

\* const progress = total ? (answeredCount / total) * 100 : 0
progress ==
    IF total = 0 THEN DZero
    ELSE DMul(DDivInt(DOfInt(answeredCount), total), DOfInt(100))

\* The navigator's marker of a question: const isAnswered = !!answers[f.id]
IsAnswered(answers, id) == Truthy(Chosen(answers, id))

\* Mutant: the button is rendered on the loaded test as well.
BackToSkills_Always == page = "test" /\ ~crashed /\ Enter("questions", EmptyLoc)

\* BACK TO SKILLS: navigate("/questions")
BackToSkills == TestGuard /\ Enter("questions", EmptyLoc)

\* Mutant: the key is the id after the current question's.
Record_NextId(prev, id, value) ==
    [k \in DOMAIN prev \cup {id + 1} |-> IF k = id + 1 THEN value ELSE prev[k]]

\* Mutant: the updater does not spread `prev`.
Record_Replace(prev, id, value) == [k \in {id} |-> value]

\* onChange of a radio: setAnswers((prev) => ({ ...prev, [currentQ.id]: value }))
Record(prev, id, value) ==
    [k \in DOMAIN prev \cup {id} |-> IF k = id THEN value ELSE prev[k]]

SelectOption(i) ==
    /\ TestActive
    /\ i \in 1..Len(currentQ.q.options)
    /\ test' = [test EXCEPT
                  !.answers = Record(@, currentQ.id, currentQ.q.options[i])]
    /\ UNCHANGED <<pageVars, parse, questions, results, call, attempt, lastIssued, sub>>

Max(a, b) == IF a > b THEN a ELSE b

\* PREVIOUS, disabled={current === 0}: setCurrent((c) => Math.max(0, c - 1))
Previous ==
    /\ TestActive
    /\ test.current # 0
    /\ test' = [test EXCEPT !.current = Max(0, @ - 1)]
    /\ UNCHANGED <<pageVars, parse, questions, results, call, attempt, lastIssued, sub>>

\* Mutant: the test reads `current < total`.
NextShown_OffByOne == test.current < total

\* NEXT is rendered when current < total - 1, SUBMIT TEST otherwise.
NextShown == test.current < total - 1

\* setCurrent((c) => Math.min(total - 1, c + 1))
NextQuestion ==
    /\ TestActive
    /\ NextShown
    /\ test' = [test EXCEPT !.current = Min(total - 1, @ + 1)]
    /\ UNCHANGED <<pageVars, parse, questions, results, call, attempt, lastIssued, sub>>

\* A button of the QUESTION NAVIGATOR: setCurrent(idx)
Jump(idx) ==
    /\ TestActive
    /\ idx \in 0..(total - 1)
    /\ test' = [test EXCEPT !.current = idx]
    /\ UNCHANGED <<pageVars, parse, questions, results, call, attempt, lastIssued, sub>>

\* handleSubmit: buildReport, setResult(report), navigate("/results", ...).
HandleSubmit ==
    /\ TestActive
    /\ ~NextShown
    /\ page' = "results"
    /\ built' = Append(built, buildReport(Flat(loc.selected), test.answers, loc.parsed))
    /\ Goto("results", [EmptyLoc EXCEPT !.report = <<built'[Len(built')]>>])
    /\ UNCHANGED timerFinals

\* The interval callback, the render it causes and that render's timer
\* effect: cleanup of the previous run, then finalization or a new interval.
\* After an unmount the callback's setRemaining changes nothing.
Tick ==
    /\ intervals > 0
    /\ IF page = "test" /\ ~crashed
       THEN LET s == TickRemaining(test.remaining)
                fin == TimerEffectFinalizes(loc.selected, s)
                report == buildReport(Flat(loc.selected), test.answers, loc.parsed)
            IN  /\ s # test.remaining
                /\ test' = [test EXCEPT !.remaining = s,
                                        !.result = IF fin THEN <<report>> ELSE @]
                /\ intervals' = ClearInterval(intervals)
                                  + TimerEffectInterval(loc.selected, s)
                /\ built' = IF fin THEN Append(built, report) ELSE built
                /\ timerFinals' = IF fin THEN timerFinals + 1 ELSE timerFinals
                /\ UNCHANGED <<page, loc, crashed, parse, questions, results,
                               call, lastIssued, sub>>
       ELSE UNCHANGED vars

\* ------------------------------------------------------------ ResultsPage
\* `if (!report) return <No report data available.>`
ResultsDeadEnd == page = "results" /\ ~crashed /\ loc.report = <<>>

OnResults == page = "results" /\ ~crashed /\ loc.report # <<>> /\ ~results.loading

\* HOME: navigate("/")
Home == ResultsDeadEnd /\ Enter("parse", EmptyLoc)

\* REGENERATE is rendered under `llmMd ?`.
RegenerateShown == Truthy(results.llmMd)

\* The gateway requests in flight.
InFlight == IF call.kind = "none" THEN 0 ELSE 1 + call.more

\* fetchLLM up to its await (on mount it is part of Goto): it starts a
\* request whether or not one is in flight already.
FetchLLM ==
    /\ InFlight < MaxInFlight
    /\ results' = [results EXCEPT !.loading = TRUE, !.llmErr = NULL]
    /\ call' = IF call.kind = "generate_report"
               THEN [call EXCEPT !.more = @ + 1]
               ELSE Request("generate_report", 0, <<>>)
    /\ sub' = Started
    /\ UNCHANGED <<pageVars, parse, questions, test, attempt, lastIssued>>

\* REGENERATE, clicked.
Regenerate == OnResults /\ RegenerateShown /\ FetchLLM

\* REGENERATE has no `disabled`: while the overlay is rendered the button is
\* still in the document and keeps the keyboard focus its click gave it, so
\* Enter or Space runs its onClick again.
RegenerateAgain ==
    /\ page = "results" /\ ~crashed /\ loc.report # <<>>
    /\ results.loading
    /\ RegenerateShown
    /\ FetchLLM

\* fetchLLM from the answer of /generate_report (report_markdown md) to its end.
GenerateResponded(o, md) ==
    /\ call.kind = "generate_report"
    /\ IF o = "ok"
       THEN /\ results' = [results EXCEPT !.llmMd = md, !.loading = FALSE]
            /\ sub' = [sub EXCEPT !.status = "ok"]
       ELSE /\ results' = [results EXCEPT
                              !.llmErr = Surfaced(o, "Failed to generate report"),
                              !.loading = FALSE]
            /\ sub' = [sub EXCEPT !.status = "failed"]
    /\ call' = IF call.more > 0 THEN [call EXCEPT !.more = @ - 1] ELSE NoCall
    /\ UNCHANGED <<pageVars, parse, questions, test, attempt, lastIssued>>

\* FINISH & RETURN HOME: navigate("/")
Finish == OnResults /\ Enter("parse", EmptyLoc)

\* ---------------------------------------------------------- specification
\* What the mounted page can do: its controls, its pending interval and the
\* settling of its fetch.
PageStep ==
    \/ \E f \in 0..NumFiles : SetFile(f)
    \/ HandleParse
    \/ \E o \in Outcomes : ParseResponded(o)
    \/ \E o \in Outcomes : UsersResponded(o)
    \/ ParseContinue
    \/ \E d \in {"aptitude", "reasoning", "coding"}, l \in Levels : SetLevel(d, l)
    \/ QuestionsBack
    \/ OnSubmit
    \/ \E o \in Outcomes : ResponsesResponded(o)
    \/ \E o \in Outcomes, qs \in QSetIds : SelectResponded(o, qs)
    \/ ToInstructions
    \/ InstructionsBack
    \/ StartTest
    \/ BackToSkills
    \/ \E i \in 1..2 : SelectOption(i)
    \/ Previous
    \/ NextQuestion
    \/ \E idx \in 0..1 : Jump(idx)
    \/ HandleSubmit
    \/ Tick
    \/ Home
    \/ Regenerate
    \/ RegenerateAgain
    \/ \E o \in Outcomes, md \in Narratives : GenerateResponded(o, md)
    \/ Finish

Next ==
    \/ \E p \in Pages : EnterUrl(p)
    \/ PageStep

Spec == Init /\ [][Next]_vars

\* ---------------------------------------------------------------- scoring
\* buildReport as a function of the question set and the answers: the Test
\* page stands on its last question, before the first tick, with a question
\* set and an AnswerMap drawn from the families below, and SUBMIT TEST is
\* pressed.

\* Every AnswerMap over the questions of flat: any subset of the ids, each
\* with one of its question's options.
AnswerMaps(flat) ==
    LET ids == {flat[i].id : i \in 1..Len(flat)}
        values == UNION {{flat[i].q.options[j] : j \in 1..Len(flat[i].q.options)} :
                            i \in 1..Len(flat)}
        options(id) == LET i == CHOOSE i \in 1..Len(flat) : flat[i].id = id
                       IN  {flat[i].q.options[j] : j \in 1..Len(flat[i].q.options)}
    IN  {a \in UNION {[S -> values] : S \in SUBSET ids} :
            \A id \in DOMAIN a : a[id] \in options(id)}

\* The AnswerMap with the only option of the questions at the positions in
\* `at` (of a set of single-option questions).
Answered(flat, at) ==
    [id \in {flat[i].id : i \in at} |-> flat[CHOOSE i \in at : flat[i].id = id].q.options[1]]

\* The positions the window pattern k answers: the first k[w] of window w.
WindowPositions(n, k) ==
    {i \in 1..n : (i - 1) % WINDOW < k[(i - 1) \div WINDOW + 1]}

WindowsOf(n) == (n + WINDOW - 1) \div WINDOW

\* The Test page mounted by START TEST with question set s, moved to
\* question `current` with `answers` recorded, before the first tick.
TestMounted(s, current, answers) ==
    /\ page = "test"
    /\ loc = [EmptyLoc EXCEPT !.userId = 1, !.selected = s, !.parsed = 1]
    /\ parse = ParseInit
    /\ questions = QuestionsInit
    /\ test = [TestInit EXCEPT !.current = current, !.answers = answers]
    /\ results = ResultsInit
    /\ call = NoCall
    /\ intervals = 1
    /\ crashed = FALSE
    /\ built = <<>>
    /\ timerFinals = 0
    /\ lastIssued = s
    /\ sub = NoSub

ScoreStart(s, answers) == TestMounted(s, Total(s) - 1, answers)

ScoreInit ==
    \/ \E s \in ShortIds : \E a \in AnswerMaps(Flat(s)) : ScoreStart(s, a)
    \/ \E n \in 1..MaxQuestions : \E o \in 0..n :
          ScoreStart(UniformId(n), Answered(Flat(UniformId(n)), 1..o))
    \/ \E n \in {WINDOW * (MaxWindows - 1) + 1, WINDOW * MaxWindows} :
          \E k \in [1..WindowsOf(n) -> 0..MaxPerWindow] :
             ScoreStart(UniformId(n),
                        Answered(Flat(UniformId(n)), WindowPositions(n, k)))

ScoreNext == HandleSubmit

ScoreSpec == ScoreInit /\ [][ScoreNext]_vars

\* ---------------------------------------------------------------- answers
\* The AnswerMap under the candidate's moves on a freshly mounted Test page,
\* up to SUBMIT TEST, for each of the short question sets.
OptionIds == 1..Len(QParis.options)

AnswerInit == \E s \in ShortIds : TestMounted(s, 0, EmptyAnswers)

AnswerNext ==
    \/ \E i \in OptionIds : SelectOption(i)
    \/ Previous
    \/ NextQuestion
    \/ \E idx \in 0..(MaxShort - 1) : Jump(idx)
    \/ HandleSubmit

AnswerSpec == AnswerInit /\ [][AnswerNext]_vars

\* ------------------------------------------------------------------ timer
\* The countdown of a freshly mounted Test page that the candidate leaves
\* alone, for each number of questions: nothing recorded, or the first
\* question answered within the first second.
TimerInit ==
    \E n \in 1..MaxQuestions : \E o \in 0..1 :
        TestMounted(UniformId(n), 0, Answered(Flat(UniformId(n)), 1..o))

TimerNext == Tick

TimerSpec == TimerInit /\ [][TimerNext]_vars

\* -------------------------------------------------------------- flattener
\* The Test page mounted with each payload of SizedSets that has a question,
\* moved to any of its questions with no question, the questions before it
\* or all questions answered, and the candidate selecting an option there.
FlatInit ==
    \E s \in SizedIds :
        /\ Total(s) > 0
        /\ \E p \in 0..(Total(s) - 1) : \E o \in {0, p, Total(s)} :
               TestMounted(s, p, Answered(Flat(s), 1..o))

FlatNext == \E i \in 1..Len(Numbered("aptitude", 1).options) : SelectOption(i)

FlatSpec == FlatInit /\ [][FlatNext]_vars

\* ================================================================= claims

\* The page controls, by what they do.
NavControl ==
    \/ ParseContinue
    \/ QuestionsBack
    \/ ToInstructions
    \/ InstructionsBack
    \/ StartTest
    \/ BackToSkills
    \/ HandleSubmit
    \/ Home
    \/ Finish

TestControl ==
    \/ \E i \in 1..2 : SelectOption(i)
    \/ Previous
    \/ NextQuestion
    \/ \E idx \in 0..1 : Jump(idx)
    \/ HandleSubmit

\* The attempt has ended: a report was built, by SUBMIT TEST or by the timer.
AttemptEnded == built # <<>>

\* C1: every test attempt that ends by SUBMIT TEST or by the countdown
\* reaching zero builds the Report exactly once, and the Results page is
\* entered with that Report as its payload: once the attempt has ended the
\* page is Results with that Report, or the page still has a step to take
\* (short of the candidate loading a URL afresh).
C1_ReportBuiltOnceAndDelivered ==
    AttemptEnded =>
        /\ Len(built) = 1
        /\ \/ page = "results" /\ loc.report = built
           \/ ENABLED PageStep

\* C2: when the remaining seconds of a loaded Test page reach zero the timer
\* finalizes (buildReport + setResult) exactly once: the result is set, no
\* interval is left, and no further tick or click builds a second report.
C2_TimerFinalizesOnce ==
    /\ timerFinals <= 1
    /\ Len(built) <= 1
    /\ (page = "test" /\ ~crashed /\ loc.selected # 0 /\ test.remaining = 0)
         => /\ timerFinals = 1
            /\ test.result = built
            /\ built = <<buildReport(Flat(loc.selected), test.answers, loc.parsed)>>
            /\ ~ENABLED Tick
            /\ ~ENABLED TestControl
    /\ timerFinals = 1 => (page = "test" /\ test.remaining = 0)

C2_Witness ==
    page = "test" /\ test.remaining = 0 /\ timerFinals = 1 /\ test.result # <<>>

\* C3: an interval is pending only on a mounted, loaded Test page with time
\* left, and never more than one; once the page has been left no tick can
\* fire and no timer-driven finalization is left over.
C3_NoTimerAfterLeave ==
    /\ intervals <= 1
    /\ intervals = 1 => (page = "test" /\ ~crashed /\ loc.selected # 0
                           /\ test.remaining > 0)
    /\ page # "test" => (~ENABLED Tick /\ timerFinals = 0)

C3_Witness ==
    page = "results" /\ Len(built) = 1 /\ intervals = 0

\* Mounting steps of the Test page.
MountsTest == StartTest \/ EnterUrl("test")

\* C4: the remaining seconds start at 1800, every tick takes exactly 1 off,
\* nothing else changes them, they stay within 0..1800, and at 0 no tick is
\* scheduled.
C4_Countdown ==
    /\ [](test.remaining \in 0..TEST_SECONDS)
    /\ [](test.remaining = 0 => ~ENABLED Tick)
    /\ [][MountsTest => test'.remaining = TEST_SECONDS]_vars
    /\ [][Tick => test'.remaining = test.remaining - 1]_vars
    /\ [][(page = "test" /\ page' = "test" /\ ~MountsTest /\ ~Tick)
            => test'.remaining = test.remaining]_vars

C4_Witness ==
    page = "test" /\ test.remaining = 1 /\ intervals = 1

\* C5: a Test page shows the test (ticks, takes answers, finalizes) only with
\* a question set in its payload, and that question set is one a successful
\* /select_questions call answered with (the latest such answer).
C5_ActiveTestHasIssuedSet ==
    page = "test" =>
        IF loc.selected = 0
        THEN intervals = 0 /\ test = TestInit /\ built = <<>> /\ ~ENABLED TestControl
        ELSE loc.selected = lastIssued

C5_Witness ==
    TestActive /\ test.answers # EmptyAnswers /\ loc.selected = lastIssued

\* C6: a Test page entered without a question set renders the guard: no
\* countdown, no report, no gateway call, and BACK TO SKILLS (to Questions)
\* is the only control.
C6_GuardIsInert ==
    TestGuard =>
        /\ intervals = 0
        /\ ~ENABLED Tick
        /\ test = TestInit
        /\ built = <<>>
        /\ call = NoCall
        /\ ENABLED BackToSkills
        /\ \A to \in Pages : ENABLED (NavControl /\ page' = to) => to = "questions"
        /\ ~ENABLED TestControl

C6_Witness == TestGuard /\ loc = EmptyLoc

\* C7: a Results page entered without a Report renders the dead end: HOME (to
\* Parse) is the only control and no /generate_report call is issued.
C7_DeadEndIsInert ==
    ResultsDeadEnd =>
        /\ call = NoCall
        /\ results = ResultsInit
        /\ ENABLED Home
        /\ \A to \in Pages : ENABLED (NavControl /\ page' = to) => to = "parse"
        /\ ~ENABLED Regenerate
        /\ ~ENABLED (\E o \in Outcomes, md \in Narratives : GenerateResponded(o, md))

C7_Witness == ResultsDeadEnd /\ sub = NoSub

\* The edges of the flow as the specification lists them, for a step.
ListedEdge ==
    \/ page = "parse" /\ page' = "questions"
    \/ page = "questions" /\ page' = "instructions"
    \/ page = "instructions" /\ page' = "test"
    \/ page = "test" /\ page' = "results"
    \/ page = "questions" /\ page' = "parse"
    \/ page = "instructions" /\ page' = "questions"
    \/ page = "test" /\ loc.selected = 0 /\ page' = "questions"
    \/ page = "results" /\ loc.report = <<>> /\ page' = "parse"

\* C8 as stated: every transition a page control performs is a listed edge.
C8_OnlyListedEdges == [][NavControl => ListedEdge]_vars

\* C8, amended: every transition a page control performs is a listed edge or
\* the reset to Parse of a Results page that has a Report (FINISH & RETURN
\* HOME).
C8_ListedEdgesAndFinish ==
    [][NavControl => \/ ListedEdge
                     \/ page = "results" /\ loc.report # <<>> /\ page' = "parse"]_vars

C8_Witness == OnResults /\ built = loc.report /\ results.llmErr = NULL

\* C9: the forward edge of the Parse page and of the Questions page is
\* enabled only if the page's most recent submission had both of its calls
\* succeed.
C9_AdvanceOnlyOnFullSuccess ==
    /\ (page = "parse" /\ ENABLED ParseContinue) => sub.status = "ok"
    /\ (page = "questions" /\ ENABLED (ToInstructions /\ page' = "instructions"))
          => sub.status = "ok"

\* The error message the mounted page shows.
ErrorShown ==
    CASE page = "parse" -> parse.error
      [] page = "questions" -> questions.err
      [] page = "results" -> results.llmErr
      [] OTHER -> NULL

\* C10: after a failed gateway call an error message is shown and the rest
\* of the page's state is what it was before the submission started.
C10_FailureRestoresPreState ==
    sub.status = "failed" => (ErrorShown # NULL /\ Snapshot = sub.pre)

\* The control of the mounted page that issues its gateway call again.
Retry ==
    \/ HandleParse
    \/ OnSubmit /\ call'.kind = "responses"
    \/ Regenerate

\* The navigation controls that lead back from a page that made a call
\* (Parse is the first page of the flow and has none).
BackEdge == QuestionsBack \/ Finish

\* C11: after a failed gateway call (parse, register, persist levels, select
\* questions, generate report) the page offers a control that issues the
\* call again and, past the first page, a navigation edge leading back.
C11_FailureRecoverable ==
    (sub.status = "failed" /\ call = NoCall /\ (page = "parse" => parse.file # 0))
        => /\ ENABLED Retry
           /\ page # "parse" => ENABLED BackEdge

\* The controls that start a gateway call.
StartsCall == Retry \/ RegenerateAgain

\* C12: at most one gateway request is in flight at any time, and while one
\* is in flight no control that starts a gateway call can be activated.
C12_AtMostOneInFlight ==
    /\ InFlight <= 1
    /\ InFlight = 1 => ~ENABLED StartsCall

\* C13: a Test page entered with a question set whose three domains are all
\* empty never reaches the crashed state, and every report built on it has
\* totalQuestions 0 and accuracy 0.
C13_EmptySetNeverCrashes ==
    (page = "test" /\ loc.selected # 0 /\ Total(loc.selected) = 0)
        => /\ ~crashed
           /\ \A i \in 1..Len(built) :
                 built[i].totals.totalQuestions = 0 /\ built[i].behavior.accuracy = 0

\* A fetch of the mounted page settles with outcome o.
Responded(o) ==
    \/ ParseResponded(o)
    \/ UsersResponded(o)
    \/ ResponsesResponded(o)
    \/ \E qs \in QSetIds : SelectResponded(o, qs)
    \/ \E md \in Narratives : GenerateResponded(o, md)

\* The outcomes with a non-success HTTP status.
HttpFailures == {"http_error", "http_error_empty"}

\* The fixed message of the mounted page's catch block.
Fallback ==
    CASE page = "parse" -> "Parse failed"
      [] page = "questions" -> "Failed to generate questions"
      [] OTHER -> "Failed to generate report"

\* C14 as stated: after a non-success HTTP status the message shown is the
\* response's body text, or its statusText, and nothing else.
C14_ErrorIsBodyVerbatim ==
    [][\A o \in HttpFailures :
          Responded(o) => ErrorShown' \in {ErrMessage(o), STATUS_TEXT}]_vars

\* C14, amended: after a non-success HTTP status the message shown is the
\* response's body text when that text is not empty, and the page's fixed
\* fallback message when it is empty.
C14_ErrorIsBodyOrFallback ==
    [][\A o \in HttpFailures :
          Responded(o) => ErrorShown' = IF ErrMessage(o) = "" THEN Fallback
                                        ELSE ErrMessage(o)]_vars

C14_Witness ==
    page = "questions" /\ sub.status = "failed"
        /\ questions.err = "Failed to generate questions"

\* C15: every selection records its option under the current question's id
\* and leaves every other entry as it was (one entry per id, the latest
\* selection); selecting the same option again changes nothing; the answered
\* ids never shrink while the page is mounted; and the answered count grows
\* by one exactly when an id is recorded for the first time.
C15_AnswerMapLastWriteWins ==
    /\ [][\A i \in OptionIds : SelectOption(i) =>
             /\ DOMAIN test'.answers = DOMAIN test.answers \cup {currentQ.id}
             /\ test'.answers[currentQ.id] = currentQ.q.options[i]
             /\ \A k \in DOMAIN test.answers \ {currentQ.id} :
                   test'.answers[k] = test.answers[k]
             /\ Record(test'.answers, currentQ.id, currentQ.q.options[i])
                   = test'.answers
             /\ answeredCount' = answeredCount
                   + (IF currentQ.id \in DOMAIN test.answers THEN 0 ELSE 1)]_vars
    /\ [][(page = "test" /\ page' = "test" /\ ~MountsTest)
             => /\ DOMAIN test.answers \subseteq DOMAIN test'.answers
                /\ answeredCount' >= answeredCount]_vars

C15_Witness ==
    TestActive /\ DOMAIN test.answers = {1, 1 + REASONING_OFFSET}
        /\ test.answers[1] = "5" /\ answeredCount = 2

\* C16 as stated: in the report SUBMIT TEST builds, a question is correct
\* iff an answer is recorded for its id and equals its correct_answer; an
\* unanswered question has no `selected` and is not correct.
C16_CorrectIffRecordedAndEqual ==
    [][HandleSubmit =>
         \A idx \in 1..total :
            LET f == Flat(loc.selected)[idx]
                r == built'[Len(built')].answers[idx]
                recorded == f.id \in DOMAIN test.answers
            IN  /\ r.isCorrect <=> (recorded /\ test.answers[f.id] = f.q.correct_answer)
                /\ ~recorded => (r.selected = NULL /\ ~r.isCorrect)]_vars

\* C16, amended: a question is correct iff an answer is recorded for its id,
\* that answer is not the empty string, and it equals the correct_answer
\* exactly; an unanswered question has no `selected` and is not correct.
C16_CorrectIffNonEmptyAndEqual ==
    [][HandleSubmit =>
         \A idx \in 1..total :
            LET f == Flat(loc.selected)[idx]
                r == built'[Len(built')].answers[idx]
                recorded == f.id \in DOMAIN test.answers
            IN  /\ r.isCorrect <=> (/\ recorded
                                    /\ test.answers[f.id] # ""
                                    /\ test.answers[f.id] = f.q.correct_answer)
                /\ recorded => r.selected = test.answers[f.id]
                /\ ~recorded => (r.selected = NULL /\ ~r.isCorrect)]_vars

C16_Witness ==
    /\ built # <<>>
    /\ built[1].answers[1].correct = "Paris"
    /\ built[1].answers[1].selected = "Paris "
    /\ ~built[1].answers[1].isCorrect

\* The results of one domain that are correct.
CountCorrect(per, domain) ==
    Cardinality({i \in 1..Len(per) : per[i].isCorrect /\ per[i].domain = domain})

\* C17: in every report totals.overall is the number of correct results,
\* each domain total is the number of correct results of that domain, the
\* three add up to overall, and totalQuestions is the length of the
\* FlatQuestion sequence.
C17_TotalsCount ==
    \A i \in 1..Len(built) :
        LET per == built[i].answers
            totals == built[i].totals
        IN  /\ totals.overall = Cardinality({j \in 1..Len(per) : per[j].isCorrect})
            /\ totals.aptitude = CountCorrect(per, "aptitude")
            /\ totals.reasoning = CountCorrect(per, "reasoning")
            /\ totals.coding = CountCorrect(per, "coding")
            /\ totals.overall = totals.aptitude + totals.reasoning + totals.coding
            /\ totals.totalQuestions = Len(per)
            /\ Len(per) = Total(lastIssued)

\* 5 questions of one domain, questions 1-3 correct: overall 3.
C17_Witness ==
    /\ built # <<>>
    /\ lastIssued = UniformId(WINDOW)
    /\ \A j \in 1..WINDOW : built[1].answers[j].isCorrect <=> j <= 3
    /\ built[1].totals.overall = 3
    /\ built[1].totals.aptitude = 3

\* round(100 * overall / totalQuestions), a tie going up.
Rounded(overall, totalQuestions) ==
    (2 * 100 * overall + totalQuestions) \div (2 * totalQuestions)

\* C18: in every report behavior.accuracy is an integer in 0..100, equal to
\* round(100 * totals.overall / totals.totalQuestions), and 0 when
\* totalQuestions is 0.
C18_AccuracyIsRounded ==
    \A i \in 1..Len(built) :
        LET totals == built[i].totals
            accuracy == built[i].behavior.accuracy
        IN  /\ accuracy \in 0..100
            /\ accuracy = IF totals.totalQuestions = 0 THEN 0
                          ELSE Rounded(totals.overall, totals.totalQuestions)

\* The window means of a correctness sequence, exactly: numerators over
\* MeanScale (every window length 1..5 divides it).
MeanScale == 3 * 4 * 5

ExactChunks(correctSeq) ==
    LET n == Len(correctSeq)
        count == (n + WINDOW - 1) \div WINDOW
        slice(c) == SubSeq(correctSeq, (c - 1) * WINDOW + 1, Min(c * WINDOW, n))
    IN  [c \in 1..count |-> (SumSeq(slice(c)) * MeanScale) \div Len(slice(c))]

\* The population variance V of the window means is
\* ExactVarianceNum / ExactVarianceDen: with n windows,
\* the sum of (n * mean - sum of the means)^2 over MeanScale^2 * n^3.
ExactVarianceNum(chunks) ==
    LET n == IF Len(chunks) = 0 THEN 1 ELSE Len(chunks)
        sum == SumSeq(chunks)
    IN  SumSeq([c \in 1..Len(chunks) |-> (n * chunks[c] - sum) * (n * chunks[c] - sum)])

ExactVarianceDen(chunks) ==
    LET n == IF Len(chunks) = 0 THEN 1 ELSE Len(chunks)
    IN  MeanScale * MeanScale * n * n * n

\* The label the thresholds give V: V < 0.05, 0.05 <= V < 0.12, V >= 0.12.
LabelOfVariance(correctSeq) ==
    LET num == ExactVarianceNum(ExactChunks(correctSeq))
        den == ExactVarianceDen(ExactChunks(correctSeq))
    IN  IF num * 100 < 5 * den THEN "Highly consistent"
        ELSE IF num * 100 < 12 * den THEN "Moderately consistent"
        ELSE "Inconsistent"

CorrectSeqOf(report) ==
    [j \in 1..Len(report.answers) |-> IF report.answers[j].isCorrect THEN 1 ELSE 0]

\* C19: in every report the consistency label is the one the thresholds give
\* the population variance V of the means of the windows of 5 results:
\* "Highly consistent" iff V < 0.05, "Moderately consistent" iff
\* 0.05 <= V < 0.12, "Inconsistent" iff V >= 0.12 (so V = 0.05 exactly is
\* "Moderately consistent").
C19_LabelFollowsVariance ==
    \A i \in 1..Len(built) :
        built[i].behavior.consistency = LabelOfVariance(CorrectSeqOf(built[i]))

\* C20: every report of a test with fewer than 5 questions is labelled
\* "Highly consistent", whatever the answers; so is the report of no
\* question at all.
C20_ShortTestHighlyConsistent ==
    /\ \A i \in 1..Len(built) :
          built[i].totals.totalQuestions < WINDOW
              => built[i].behavior.consistency = "Highly consistent"
    /\ buildReport(<<>>, EmptyAnswers, 0).behavior.consistency = "Highly consistent"

C20_Witness ==
    /\ built # <<>>
    /\ built[1].totals.totalQuestions = WINDOW - 1
    /\ built[1].answers[1].isCorrect
    /\ ~built[1].answers[2].isCorrect
    /\ built[1].behavior.consistency = "Highly consistent"

\* C21: when the countdown reaches zero with nothing recorded in the
\* AnswerMap, a Report is built and it has accuracy 0, totals.overall 0 and
\* the label "Highly consistent", whatever the number of questions.
C21_TimeoutWithNoAnswers ==
    (page = "test" /\ ~crashed /\ loc.selected # 0 /\ test.remaining = 0
        /\ test.answers = EmptyAnswers)
        => /\ Len(test.result) = 1
           /\ test.result[1].behavior.accuracy = 0
           /\ test.result[1].totals.overall = 0
           /\ test.result[1].behavior.consistency = "Highly consistent"
           /\ test.result[1].totals.totalQuestions = Total(loc.selected)

C21_Witness ==
    /\ page = "test" /\ test.remaining = 0 /\ timerFinals = 1
    /\ test.answers = EmptyAnswers
    /\ Total(loc.selected) = 2 * WINDOW + 1
    /\ test.result[1].behavior.accuracy = 0

\* The FlatQuestions of the mounted Test page.
flat == Flat(loc.selected)

\* The payload of the mounted Test page.
selected == AllSets[loc.selected]

\* C22: three groups of 10 flatten to exactly 30 FlatQuestions with the ids
\* q-1..q-30 in sequence order, the first 10 tagged aptitude, the next 10
\* reasoning, the last 10 coding, each holding the question at the same
\* position of its group.
C22_NominalFlattening ==
    (page = "test" /\ loc.selected = SizedId(PER_DOMAIN, PER_DOMAIN, PER_DOMAIN))
        => /\ Len(flat) = 3 * PER_DOMAIN
           /\ \A k \in 1..Len(flat) : flat[k].id = k
           /\ \A k \in 1..PER_DOMAIN :
                 /\ flat[k].domain = "aptitude"
                 /\ flat[k].q = selected.aptitude[k]
                 /\ flat[PER_DOMAIN + k].domain = "reasoning"
                 /\ flat[PER_DOMAIN + k].q = selected.reasoning[k]
                 /\ flat[2 * PER_DOMAIN + k].domain = "coding"
                 /\ flat[2 * PER_DOMAIN + k].q = selected.coding[k]

C22_Witness ==
    /\ TestActive
    /\ loc.selected = SizedId(PER_DOMAIN, PER_DOMAIN, PER_DOMAIN)
    /\ test.current = 3 * PER_DOMAIN - 1
    /\ currentQ.id \in DOMAIN test.answers
    /\ currentQ.q.question = "coding 10"

\* The positions of the sequence that carry the same id as another one.
Colliding(f) == {i \in 1..Len(f) : \E j \in 1..Len(f) : j # i /\ f[j].id = f[i].id}

\* A payload of 3 aptitude, 10 reasoning and 10 coding questions.
ShortAptitude == SizedId(3, PER_DOMAIN, PER_DOMAIN)

\* C23 as stated: flattening groups of sizes (3,10,10) yields an id
\* collision, two FlatQuestions with the same id, one of them of the
\* reasoning block.
C23_ShortGroupCollides ==
    (page = "test" /\ loc.selected = ShortAptitude)
        => \E i \in Colliding(flat) : flat[i].domain = "reasoning"

\* C23, amended: flattening groups of sizes (3,10,10) yields 23
\* FlatQuestions with the ids q-1..q-3, q-11..q-20, q-21..q-30 in sequence
\* order: the offsets stay 0, 10 and 20, the ids q-4..q-10 are not used and
\* no two FlatQuestions carry the same id.
C23_ShortGroupLeavesGap ==
    (page = "test" /\ loc.selected = ShortAptitude)
        => /\ Len(flat) = 3 + 2 * PER_DOMAIN
           /\ \A k \in 1..3 : flat[k].id = k /\ flat[k].domain = "aptitude"
           /\ \A k \in 1..PER_DOMAIN :
                 /\ flat[3 + k].id = REASONING_OFFSET + k
                 /\ flat[3 + k].domain = "reasoning"
                 /\ flat[3 + PER_DOMAIN + k].id = CODING_OFFSET + k
                 /\ flat[3 + PER_DOMAIN + k].domain = "coding"
           /\ Colliding(flat) = {}

C23_Witness ==
    /\ TestActive
    /\ loc.selected = ShortAptitude
    /\ test.current = 3
    /\ currentQ.q.question = "reasoning 1"
    /\ DOMAIN test.answers = {1, 2, 3, REASONING_OFFSET + 1}

\* C24: whenever the Parse page offers CONTINUE, the candidate id and the
\* profile it would put in the payload come from the same submission: the id
\* is the one /users returned for exactly that profile.
C24_ContinuePairsIdWithProfile ==
    (page = "parse" /\ ENABLED ParseContinue) => parse.userId = parse.data

\* The groups of the payload stay within the offsets of the id scheme.
WithinOffsets ==
    /\ Len(selected.aptitude) <= REASONING_OFFSET
    /\ Len(selected.reasoning) <= CODING_OFFSET - REASONING_OFFSET

\* The aptitude group reaches into the ids of a reasoning group that is not
\* empty.
AptitudeOverflows ==
    Len(selected.aptitude) > REASONING_OFFSET /\ Len(selected.reasoning) >= 1

\* The positions of f that carry the given id.
Sharing(f, id) == {j \in 1..Len(f) : f[j].id = id}

\* A selection of `value` on the question with the given id, taking the
\* AnswerMap from old to new: what it leaves alone and what it records.
TouchesOneId(f, id, value, old, new) ==
    LET before == PerQuestion(f, old)
        after == PerQuestion(f, new)
        sharing == Sharing(f, id)
    IN  /\ \A j \in 1..Len(f) \ sharing :
              /\ Chosen(new, f[j].id) = Chosen(old, f[j].id)
              /\ IsAnswered(new, f[j].id) = IsAnswered(old, f[j].id)
              /\ after[j] = before[j]
        /\ \A j \in sharing :
              /\ Chosen(new, f[j].id) = value
              /\ IsAnswered(new, f[j].id)
              /\ after[j].selected = value

\* C25: with at most 10 aptitude and at most 10 reasoning questions all ids
\* are pairwise distinct, and a selection leaves the recorded answer, the
\* answered marker and the score of every other question as they were; with
\* 11 or more aptitude questions and a reasoning question, the 11th aptitude
\* question and the first reasoning question share the id q-11, and a
\* selection on either is recorded, marked and scored for both.
C25_SelectionTouchesOneId ==
    /\ [](page = "test" =>
            /\ WithinOffsets => Colliding(flat) = {}
            /\ AptitudeOverflows =>
                  /\ Sharing(flat, REASONING_OFFSET + 1)
                        = {REASONING_OFFSET + 1, Len(selected.aptitude) + 1}
                  /\ flat[REASONING_OFFSET + 1].domain = "aptitude"
                  /\ flat[Len(selected.aptitude) + 1].domain = "reasoning")
    /\ [][\A i \in 1..Len(currentQ.q.options) : SelectOption(i) =>
             /\ TouchesOneId(flat, currentQ.id, currentQ.q.options[i],
                             test.answers, test'.answers)
             /\ WithinOffsets => Sharing(flat, currentQ.id) = {test.current + 1}]_vars

\* On a payload of 11 aptitude questions and 1 reasoning question, "no" was
\* selected on the reasoning question and the 11th aptitude question shows
\* it.
C25_Witness ==
    /\ TestActive
    /\ loc.selected = SizedId(REASONING_OFFSET + 1, 1, 0)
    /\ test.current = REASONING_OFFSET + 1
    /\ currentQ.domain = "reasoning"
    /\ test.answers = [id \in {REASONING_OFFSET + 1} |-> "no"]
    /\ flat[REASONING_OFFSET + 1].domain = "aptitude"
    /\ IsAnswered(test.answers, flat[REASONING_OFFSET + 1].id)

\* C26: on a Questions page whose payload has no candidate id, submitting
\* sets the error "Missing userId; parse your resume first." and issues no
\* gateway call; that page never holds a question set, so CONTINUE TO
\* INSTRUCTIONS cannot be taken from it.
C26_NoUserIdNoCall ==
    /\ [][(OnSubmit /\ loc.userId = 0)
             => /\ questions'.err = MISSING_USER
                /\ call' = NoCall
                /\ ~questions'.saving]_vars
    /\ []((page = "questions" /\ loc.userId = 0)
             => /\ call = NoCall
                /\ ~questions.saving
                /\ questions.selected = 0
                /\ ~questions.ready
                /\ ~ENABLED (ToInstructions /\ page' = "instructions"))

C26_Witness ==
    /\ page = "questions" /\ loc.userId = 0
    /\ questions.err = MISSING_USER
    /\ questions.coding = "advanced"

\* The outcomes of a fetch that make the handler throw.
Failures == Outcomes \ {"ok"}

\* C27: /users is requested only by the step in which /parse of the same
\* submission answered ok, for the profile /parse returned; /select_questions
\* only by the step in which /responses of the same submission answered ok,
\* for the same candidate and the same three levels; when the first call of
\* a submission fails no call is in flight afterwards.
C27_SecondCallAfterFirstSucceeded ==
    [][ /\ (call'.kind = "users" /\ call.kind # "users")
            => /\ call.kind = "parse"
               /\ ParseResponded("ok")
               /\ call'.arg = parse'.data
               /\ sub' = sub
        /\ (call'.kind = "select_questions" /\ call.kind # "select_questions")
            => /\ call.kind = "responses"
               /\ ResponsesResponded("ok")
               /\ call'.arg = call.arg
               /\ call'.levels = call.levels
               /\ sub' = sub
        /\ \A o \in Failures :
              (ParseResponded(o) \/ ResponsesResponded(o))
                 => (call' = NoCall /\ sub'.status = "failed")]_vars

C27_Witness ==
    /\ page = "questions"
    /\ call.kind = "select_questions"
    /\ call.levels = <<"advanced", "beginner", "intermediate">>
    /\ questions.msg = SAVED
    /\ sub.status = "pending"

\* PREVIOUS, NEXT and the buttons of the navigator.
Navigates ==
    \/ Previous
    \/ NextQuestion
    \/ \E idx \in 0..(total - 1) : Jump(idx)

\* C28: on a Test page that shows a test of at least one question the
\* current index is within 0..total-1; SUBMIT TEST is rendered, and pressed,
\* exactly on the last index and NEXT exactly on the others, whatever has
\* been answered; PREVIOUS, NEXT and the navigator change neither the
\* AnswerMap nor the remaining time and leave the index within 0..total-1.
C28_NavigationStaysInRange ==
    /\ []((TestActive /\ total >= 1)
             => /\ test.current \in 0..(total - 1)
                /\ ~NextShown <=> test.current = total - 1
                /\ ENABLED NextQuestion <=> test.current # total - 1
                /\ ENABLED Previous <=> test.current # 0)
    /\ [][HandleSubmit => (~ENABLED NextQuestion /\ test.current = total - 1)]_vars
    /\ [][Navigates
             => /\ test'.current \in 0..(total - 1)
                /\ test'.answers = test.answers
                /\ test'.remaining = test.remaining
                /\ test'.result = test.result]_vars

\* The last of three questions, reached with nothing answered.
C28_Witness ==
    /\ TestActive
    /\ total = 3
    /\ test.current = total - 1
    /\ test.answers = EmptyAnswers
    /\ ~NextShown

\* The declared options of the questions of f that carry the given id.
OptionsOf(f, id) ==
    UNION {{f[j].q.options[i] : i \in 1..Len(f[j].q.options)} : j \in Sharing(f, id)}

\* C29: on the Test page every key of the AnswerMap is the id of a
\* FlatQuestion of the sequence and its value is a declared option of a
\* question with that id; the answered count is at most the number of
\* questions, and the progress, as computed and as displayed, is within
\* 0..100.
C29_AnswersAreDeclaredOptions ==
    (page = "test" /\ ~crashed /\ loc.selected # 0)
        => /\ \A id \in DOMAIN test.answers :
                 /\ Sharing(flat, id) # {}
                 /\ test.answers[id] \in OptionsOf(flat, id)
           /\ answeredCount <= total
           /\ ~DLess(DOfInt(100), progress)
           /\ MathRound(progress) \in 0..100

\* Two of three questions answered, the second with its second option:
\* the progress shown is 67%.
C29_Witness ==
    /\ TestActive
    /\ total = 3
    /\ answeredCount = 2
    /\ test.answers[2] = flat[2].q.options[2]
    /\ MathRound(progress) = 67

\* C30: on the Parse, Questions and Results pages the loading flag is TRUE
\* exactly while a gateway call started from the page is in flight.
C30_LoadingIffInFlight ==
    /\ page = "parse" => (parse.loading <=> call.kind \in {"parse", "users"})
    /\ page = "questions"
          => (questions.saving <=> call.kind \in {"responses", "select_questions"})
    /\ page = "results" => (results.loading <=> call.kind = "generate_report")

====
